---------------------------- MODULE Spec2Model ----------------------------
(***************************************************************************)
(* A model of the LODA MCP server (src/unnamed/part_000): the API client,  *)
(* the tool handlers, the call-tool dispatcher and the stdio / HTTP        *)
(* transport front end with its session table.                             *)
(*                                                                         *)
(* Strings are sequences of tokens (chunks of characters); sequence and    *)
(* program identifiers are spelled character by character so that the      *)
(* pattern /^A\d{6,}$/ is computed on them.                                *)
(***************************************************************************)
EXTENDS Integers, Sequences, FiniteSets, TLC

(***************************************************************************)
(* Bounds of the model.                                                    *)
(***************************************************************************)
MaxTransports == 2
MaxRequestId == 1

(***************************************************************************)
(* JavaScript values, as far as the handlers look at them.                 *)
(***************************************************************************)
Undef == [type |-> "undefined", s |-> <<>>, n |-> 0]
Null == [type |-> "null", s |-> <<>>, n |-> 0]
Str(x) == [type |-> "string", s |-> x, n |-> 0]
Num(k) == [type |-> "number", s |-> <<>>, n |-> k]
Bool(b) == [type |-> "boolean", s |-> <<>>, n |-> IF b THEN 1 ELSE 0]
\* An array, kept by its String() conversion (its elements joined by ",").
Arr(joined) == [type |-> "array", s |-> joined, n |-> 0]

\* typeof v
TypeOf(v) == IF v.type \in {"array", "null", "object"} THEN "object" ELSE v.type

\* ToBoolean(v), as used by `!v` and `v && ...`
Truthy(v) ==
  CASE v.type = "undefined" -> FALSE
    [] v.type = "null" -> FALSE
    [] v.type = "string" -> v.s /= <<>>
    [] v.type = "number" -> v.n /= 0
    [] v.type = "boolean" -> v.n = 1
    [] OTHER -> TRUE

\* String(v), the conversion RegExp.prototype.test and template strings apply
ToStringJS(v) ==
  CASE v.type = "undefined" -> <<"undefined">>
    [] v.type = "null" -> <<"null">>
    [] v.type = "string" -> v.s
    [] v.type = "number" -> <<ToString(v.n)>>
    [] v.type = "boolean" -> IF v.n = 1 THEN <<"true">> ELSE <<"false">>
    [] v.type = "array" -> v.s
    [] OTHER -> <<"[object Object]">>

Digits == {"0", "1", "2", "3", "4", "5", "6", "7", "8", "9"}

\* /^A\d{6,}$/.test(v)
IdPatternTest(v) ==
  LET str == ToStringJS(v)
  IN /\ Len(str) >= 7
     /\ str[1] = "A"
     /\ \A i \in 2..Len(str) : str[i] \in Digits

\* str.includes(tok), at the granularity of tokens
Includes(str, tok) == \E i \in 1..Len(str) : str[i] = tok

\* parts.join(sep)
RECURSIVE Join(_, _)
Join(parts, sep) ==
  IF parts = <<>> THEN <<>>
  ELSE IF Len(parts) = 1 THEN parts[1]
  ELSE parts[1] \o sep \o Join(Tail(parts), sep)

(***************************************************************************)
(* Errors.  ErrorCode and McpError come from the protocol SDK; McpError's  *)
(* constructor prefixes the message with "MCP error <code>: ".             *)
(***************************************************************************)
InvalidParams == -32602
MethodNotFound == -32601
InternalError == -32603

NoError == [class |-> "none", code |-> 0, message |-> <<>>]
McpError(code, message) ==
  [class |-> "McpError", code |-> code,
   message |-> <<"MCP error ", ToString(code), ": ">> \o message]
\* Any other thrown Error (TypeError, SyntaxError, ...), or a thrown non-Error
JsError(class, message) == [class |-> class, code |-> 0, message |-> message]
IsError(e) == e.class \notin {"none", "nonError"}


(***************************************************************************)
(* Decoded response bodies.  A body is a JSON value; an object is kept as  *)
(* a wide record with the set `has` of the properties it really has.       *)
(***************************************************************************)
TextBlock(text) == [type |-> "text", text |-> text]

Entry(id, name, hasKeywords, keywords) ==
  [id |-> id, name |-> name, hasKeywords |-> hasKeywords, keywords |-> keywords,
   description |-> <<"desc">>, numPrograms |-> 1, numSequences |-> 2, numUsages |-> 3]

EmptyObject ==
  [jt |-> "object", has |-> {}, str |-> <<>>, items |-> <<>>,
   id |-> <<>>, name |-> <<>>, code |-> <<>>, submitter |-> <<>>, oeisRef |-> <<>>,
   status |-> <<>>, message |-> <<>>, output |-> <<>>,
   terms |-> <<>>, keywords |-> <<>>, authors |-> <<>>, usages |-> <<>>,
   results |-> <<>>, total |-> 0,
   numSequences |-> 0, numPrograms |-> 0, numFormulas |-> 0,
   content |-> <<>>]
JsonNull == [EmptyObject EXCEPT !.jt = "null"]
JsonString(text) == [EmptyObject EXCEPT !.jt = "string", !.str = text]
JsonArray(items) == [EmptyObject EXCEPT !.jt = "array", !.items = items]

\* o.f exists: o is an object that has the property
Has(o, f) == o.jt = "object" /\ f \in o.has
\* o.f inside a template string
PropText(o, f, value) == IF Has(o, f) THEN value ELSE <<"undefined">>
\* what reading a property of null throws
NullRead(f) == JsError("TypeError", <<"Cannot read properties of null (reading '", f, "')">>)
\* what reading a property of an undefined property throws
UndefRead(f) ==
  JsError("TypeError", <<"Cannot read properties of undefined (reading '", f, "')">>)
NotAFunction(f) == JsError("TypeError", <<f, " is not a function">>)

(***************************************************************************)
(* LODAApiClient.makeRequest, against one behaviour `up` of the remote     *)
(* API.                                                                    *)
(***************************************************************************)
BaseUrl == <<"https://api.loda-lang.org/v2">>

DefaultHeaders == {<<"Accept", "application/json">>, <<"User-Agent", "loda-mcp/1.0.0">>}

\* { ...a, ...b } on header objects: a key of b replaces the same key of a
SpreadHeaders(a, b) == {p \in a : \A q \in b : q[1] /= p[1]} \cup b

NoOptions == [method |-> "GET", hasHeaders |-> FALSE, headers |-> {}, body |-> <<>>]
PostText(code) ==
  [method |-> "POST", hasHeaders |-> TRUE,
   headers |-> {<<"Content-Type", "text/plain">>}, body |-> code]

\* The init object handed to fetch: { ...defaultOptions, ...options }, where
\* defaultOptions = { headers: { Accept, User-Agent, ...options.headers } }
FetchInit(endpoint, options) ==
  LET defaultOptions == [headers |-> SpreadHeaders(DefaultHeaders, options.headers)]
  IN [url |-> BaseUrl \o endpoint.path,
      query |-> endpoint.query,
      method |-> options.method,
      headers |-> IF options.hasHeaders THEN options.headers ELSE defaultOptions.headers,
      body |-> options.body]

MrValue(j) == [kind |-> "value", err |-> NoError, value |-> j]
MrThrow(e) == [kind |-> "throw", err |-> e, value |-> JsonNull]

\* faulty variant: the catch block lacks the `instanceof McpError` rethrow, so the
\* error thrown for a non-success status is wrapped as a request error
makeRequestCatchWraps(error) ==
  IF IsError(error)
  THEN IF Includes(error.message, "fetch")
       THEN McpError(InternalError,
                     <<"Network error: Unable to connect to LODA API at ">> \o BaseUrl)
       ELSE McpError(InternalError, <<"Request error: ">> \o error.message)
  ELSE McpError(InternalError, <<"Unknown error occurred">>)

\* faulty variant: the catch block throws what it caught
makeRequestCatchRethrows(error) == error
\* the catch block of makeRequest
makeRequestCatch(error) ==
  IF error.class = "McpError" THEN error
  ELSE IF IsError(error)
  THEN IF Includes(error.message, "fetch")
       THEN McpError(InternalError,
                     <<"Network error: Unable to connect to LODA API at ">> \o BaseUrl)
       ELSE McpError(InternalError, <<"Request error: ">> \o error.message)
  ELSE McpError(InternalError, <<"Unknown error occurred">>)

\* the try block of makeRequest: a value, or what is thrown inside it
makeRequestTry(up) ==
  IF up.fetch = "throws" THEN MrThrow(up.thrown)
  ELSE IF ~up.ok
  THEN LET head == <<"HTTP ", ToString(up.status), ": ">> \o up.statusText
           errorMessage == IF ~up.textFails /\ up.text /= <<>>
                           THEN head \o <<" - ">> \o up.text
                           ELSE head
       IN MrThrow(McpError(InternalError, <<"LODA API request failed: ">> \o errorMessage))
  ELSE IF up.contentType /= <<>> /\ Includes(up.contentType, "application/json")
  THEN IF up.jsonOk THEN MrValue(up.json)
       ELSE MrThrow(JsError("SyntaxError", <<"Unexpected token">>))
  ELSE IF up.textFails THEN MrThrow(JsError("TypeError", <<"terminated">>))
  ELSE MrValue(JsonString(up.text))

makeRequest(up) ==
  LET r == makeRequestTry(up)
  IN IF r.kind = "throw" THEN MrThrow(makeRequestCatch(r.err)) ELSE r

(***************************************************************************)
(* The client's methods: the endpoint and the options each one hands to    *)
(* makeRequest.                                                            *)
(***************************************************************************)
Endpoint(path, query) == [path |-> path, query |-> query]
\* if (v !== undefined) params.append(k, String(v))
AppendParam(query, k, v) ==
  IF v.type /= "undefined" THEN Append(query, <<k, ToStringJS(v)>>) ELSE query
SearchParams(q, limit, skip, shuffle) ==
  AppendParam(AppendParam(AppendParam(<<<<"q", ToStringJS(q)>>>>,
                                      "limit", limit), "skip", skip), "shuffle", shuffle)

getSequence(id) == FetchInit(Endpoint(<<"/sequences/">> \o ToStringJS(id), <<>>), NoOptions)
getProgram(id) == FetchInit(Endpoint(<<"/programs/">> \o ToStringJS(id), <<>>), NoOptions)
searchSequences(q, limit, skip, shuffle) ==
  FetchInit(Endpoint(<<"/sequences/search">>, SearchParams(q, limit, skip, shuffle)), NoOptions)
searchPrograms(q, limit, skip, shuffle) ==
  FetchInit(Endpoint(<<"/programs/search">>, SearchParams(q, limit, skip, shuffle)), NoOptions)
evalProgram(code, t, o) ==
  FetchInit(Endpoint(<<"/programs/eval">>, AppendParam(AppendParam(<<>>, "t", t), "o", o)),
            PostText(ToStringJS(code)))
exportProgram(code, format) ==
  FetchInit(Endpoint(<<"/programs/export">>, AppendParam(<<>>, "format", format)),
            PostText(ToStringJS(code)))
submitProgram(id, code, submitter) ==
  FetchInit(Endpoint(<<"/programs/">> \o ToStringJS(id) \o <<"/submit">>,
                     IF Truthy(submitter) THEN <<<<"submitter", ToStringJS(submitter)>>>>
                     ELSE <<>>),
            PostText(ToStringJS(code)))
getStats == FetchInit(Endpoint(<<"/stats/summary">>, <<>>), NoOptions)
getKeywords == FetchInit(Endpoint(<<"/stats/keywords">>, <<>>), NoOptions)
getSubmitters == FetchInit(Endpoint(<<"/stats/submitters">>, <<>>), NoOptions)
getUsageStats == FetchInit(Endpoint(<<"/stats/programs/numUsages">>, <<>>), NoOptions)

(***************************************************************************)
(* Tool handlers.  Each is an async function: what it throws becomes the   *)
(* rejection of the promise it returns.  XxxCheck is the validation before *)
(* the first await, XxxRequest the request the handler then issues, and    *)
(* handleXxx(args, up) the whole handler against the behaviour `up` of the *)
(* remote API.                                                             *)
(***************************************************************************)
NoArgs ==
  [id |-> Undef, q |-> Undef, code |-> Undef, limit |-> Undef, skip |-> Undef,
   shuffle |-> Undef, t |-> Undef, o |-> Undef, format |-> Undef, submitter |-> Undef]

Result(content, props) ==
  [kind |-> "result", err |-> NoError, content |-> content, props |-> props]
Throw(e) == [kind |-> "throw", err |-> e, content |-> <<>>, props |-> EmptyObject]
\* { content: [...], ...result }: a property of result named content comes last
SpreadResult(content, result) ==
  Result(IF Has(result, "content") THEN result.content ELSE content, result)

IdCheck(args) ==
  IF ~IdPatternTest(args.id)
  THEN McpError(InvalidParams, <<"id must be a string like A000045">>) ELSE NoError
QCheck(args) ==
  IF ~Truthy(args.q) \/ TypeOf(args.q) /= "string"
  THEN McpError(InvalidParams, <<"q is required">>) ELSE NoError
\* faulty variant: only an absent code is refused
CodeCheckAbsentOnly(args) ==
  IF args.code.type = "undefined"
  THEN McpError(InvalidParams, <<"code is required">>) ELSE NoError
CodeCheck(args) ==
  IF ~Truthy(args.code) \/ TypeOf(args.code) /= "string"
  THEN McpError(InvalidParams, <<"code is required">>) ELSE NoError
SubmitCheck(args) == IF IdCheck(args) /= NoError THEN IdCheck(args) ELSE CodeCheck(args)

\* list.slice(0, 20)
Slice20(list) == SubSeq(list, 1, IF Len(list) > 20 THEN 20 ELSE Len(list))

handleGetSequence(args, up) ==
  IF IdCheck(args) /= NoError THEN Throw(IdCheck(args))
  ELSE LET mr == makeRequest(up)
           seq == mr.value
       IN IF mr.kind = "throw" THEN Throw(mr.err)
          ELSE IF seq.jt = "null" THEN Throw(NullRead("id"))
          ELSE IF ~Has(seq, "terms") THEN Throw(UndefRead("slice"))
          ELSE Result(<<TextBlock(
                 <<"Sequence ">> \o PropText(seq, "id", seq.id) \o <<": ">>
                 \o PropText(seq, "name", seq.name) \o <<"\n">>
                 \o <<"First terms: ">> \o Join(Slice20(seq.terms), <<", ">>)
                 \o (IF Len(seq.terms) > 20 THEN <<"...">> ELSE <<>>) \o <<"\n">>
                 \o (IF Has(seq, "keywords")
                     THEN <<"Keywords: ">> \o Join(seq.keywords, <<", ">>) \o <<"\n">>
                     ELSE <<>>)
                 \o (IF Has(seq, "authors") /\ Len(seq.authors) > 0
                     THEN <<"Authors: ">> \o Join(seq.authors, <<", ">>) \o <<"\n">>
                     ELSE <<>>)
                 \o (IF Has(seq, "oeisRef") /\ seq.oeisRef /= <<>>
                     THEN <<"OEIS: ">> \o seq.oeisRef \o <<"\n">>
                     ELSE <<>>))>>, EmptyObject)

\* `${r.id}: ${r.name}` + (r.keywords && r.keywords.length ? ` [${...}]` : '')
ResultLine(r) ==
  r.id \o <<": ">> \o r.name
  \o (IF r.hasKeywords /\ Len(r.keywords) > 0
      THEN <<" [">> \o Join(r.keywords, <<", ">>) \o <<"]">> ELSE <<>>)

SearchText(result, none) ==
  IF Len(result.results) = 0 THEN <<none>>
  ELSE Join([i \in 1..Len(result.results) |-> ResultLine(result.results[i])], <<"\n">>)
       \o <<"\nTotal: ">> \o PropText(result, "total", <<ToString(result.total)>>)

SearchRender(mr, none) ==
  LET result == mr.value
  IN IF mr.kind = "throw" THEN Throw(mr.err)
     ELSE IF result.jt = "null" THEN Throw(NullRead("results"))
     ELSE IF ~Has(result, "results") THEN Throw(UndefRead("length"))
     ELSE SpreadResult(<<TextBlock(SearchText(result, none))>>, result)

handleSearchSequences(args, up) ==
  IF QCheck(args) /= NoError THEN Throw(QCheck(args))
  ELSE SearchRender(makeRequest(up), "No sequences found.")

handleSearchPrograms(args, up) ==
  IF QCheck(args) /= NoError THEN Throw(QCheck(args))
  ELSE SearchRender(makeRequest(up), "No programs found.")

handleGetProgramDetails(args, up) ==
  IF IdCheck(args) /= NoError THEN Throw(IdCheck(args))
  ELSE LET mr == makeRequest(up)
           prog == mr.value
           text == <<"LODA Program ">> \o PropText(prog, "id", prog.id) \o <<": ">>
                   \o PropText(prog, "name", prog.name) \o <<"\n">>
                   \o <<"Submitter: ">>
                   \o (IF Has(prog, "submitter") /\ prog.submitter /= <<>>
                       THEN prog.submitter ELSE <<"unknown">>)
                   \o <<"\n">> \o <<"Code:\n">> \o PropText(prog, "code", prog.code)
                   \o (IF Has(prog, "usages") /\ Len(prog.usages) > 0
                       THEN <<"\nUsages: ">> \o Join(prog.usages, <<", ">>) ELSE <<>>)
       IN IF mr.kind = "throw" THEN Throw(mr.err)
          ELSE IF prog.jt = "null" THEN Throw(NullRead("id"))
          ELSE Result(<<TextBlock(text)>>,
                      [EmptyObject EXCEPT !.has = {"usages"} \cap prog.has,
                                          !.usages = prog.usages])

\* result.terms && result.terms.length
HasTerms(result) == Has(result, "terms") /\ Len(result.terms) > 0
IsSuccess(result) == Has(result, "status") /\ result.status = <<"success">>
\* `Error: ${result.message}` + the partial result, if any
ErrorText(result) ==
  <<"Error: ">> \o PropText(result, "message", result.message)
  \o (IF HasTerms(result)
      THEN <<"\nPartial result: ">> \o Join(result.terms, <<", ">>) ELSE <<>>)

handleEvalProgram(args, up) ==
  IF CodeCheck(args) /= NoError THEN Throw(CodeCheck(args))
  ELSE LET mr == makeRequest(up)
           result == mr.value
       IN IF mr.kind = "throw" THEN Throw(mr.err)
          ELSE IF result.jt = "null" THEN Throw(NullRead("status"))
          ELSE IF IsSuccess(result) /\ ~Has(result, "terms") THEN Throw(UndefRead("join"))
          ELSE SpreadResult(<<TextBlock(
                 IF IsSuccess(result)
                 THEN <<"Result: ">> \o Join(result.terms, <<", ">>)
                 ELSE ErrorText(result))>>, result)

handleExportProgram(args, up) ==
  IF CodeCheck(args) /= NoError THEN Throw(CodeCheck(args))
  ELSE LET mr == makeRequest(up)
           result == mr.value
       IN IF mr.kind = "throw" THEN Throw(mr.err)
          ELSE IF result.jt = "null" THEN Throw(NullRead("status"))
          ELSE SpreadResult(<<TextBlock(
                 IF IsSuccess(result)
                 THEN <<"Export result (">>
                      \o (IF Truthy(args.format) THEN ToStringJS(args.format)
                          ELSE <<"formula">>)
                      \o <<"):\n">> \o PropText(result, "output", result.output)
                 ELSE <<"Error: ">> \o PropText(result, "message", result.message))>>,
                 result)

handleSubmitProgram(args, up) ==
  IF SubmitCheck(args) /= NoError THEN Throw(SubmitCheck(args))
  ELSE LET mr == makeRequest(up)
           result == mr.value
       IN IF mr.kind = "throw" THEN Throw(mr.err)
          ELSE IF result.jt = "null" THEN Throw(NullRead("status"))
          ELSE SpreadResult(<<TextBlock(
                 IF IsSuccess(result)
                 THEN <<"Program submitted for ">> \o ToStringJS(args.id) \o <<".">>
                      \o (IF HasTerms(result)
                          THEN <<"\nResult: ">> \o Join(result.terms, <<", ">>) ELSE <<>>)
                 ELSE ErrorText(result))>>, result)

handleGetStats(up) ==
  LET mr == makeRequest(up)
      stats == mr.value
  IN IF mr.kind = "throw" THEN Throw(mr.err)
     ELSE IF stats.jt = "null" THEN Throw(NullRead("numSequences"))
     ELSE Result(<<TextBlock(
            <<"Stats: Sequences=">>
            \o PropText(stats, "numSequences", <<ToString(stats.numSequences)>>)
            \o <<", Programs=">>
            \o PropText(stats, "numPrograms", <<ToString(stats.numPrograms)>>)
            \o <<", Formulas=">>
            \o PropText(stats, "numFormulas", <<ToString(stats.numFormulas)>>))>>,
            EmptyObject)

\* list.length === 0 on a decoded body
LengthIsZero(list) ==
  \/ list.jt = "array" /\ Len(list.items) = 0
  \/ list.jt = "string" /\ Len(list.str) = 0

KeywordLine(k) ==
  k.name \o <<": ">> \o k.description \o <<"\n  Programs: ">>
  \o <<ToString(k.numPrograms)>> \o <<", Sequences: ">> \o <<ToString(k.numSequences)>>
SubmitterLine(x) == x.name \o <<": ">> \o <<ToString(x.numPrograms)>> \o <<" programs">>
UsageLine(u) == u.id \o <<": ">> \o <<ToString(u.numUsages)>> \o <<" usages">>

handleGetKeywords(up) ==
  LET mr == makeRequest(up)
      keywords == mr.value
      props == [EmptyObject EXCEPT !.has = {"keywords"}, !.items = keywords.items]
  IN IF mr.kind = "throw" THEN Throw(mr.err)
     ELSE IF keywords.jt = "null" THEN Throw(NullRead("length"))
     ELSE IF LengthIsZero(keywords) THEN Result(<<TextBlock(<<"No keywords found.">>)>>, props)
     ELSE IF keywords.jt /= "array" THEN Throw(NotAFunction("keywords.map"))
     ELSE Result(<<TextBlock(
            Join([i \in 1..Len(keywords.items) |-> KeywordLine(keywords.items[i])],
                 <<"\n">>))>>, props)

handleGetSubmitters(up) ==
  LET mr == makeRequest(up)
      submitters == mr.value
  IN IF mr.kind = "throw" THEN Throw(mr.err)
     ELSE IF submitters.jt = "null" THEN Throw(NullRead("map"))
     ELSE IF submitters.jt /= "array" THEN Throw(NotAFunction("submitters.map"))
     ELSE Result(<<TextBlock(
            Join([i \in 1..Len(submitters.items) |-> SubmitterLine(submitters.items[i])],
                 <<"\n">>))>>, EmptyObject)

handleGetUsageStats(up) ==
  LET mr == makeRequest(up)
      usages == mr.value
      props == [EmptyObject EXCEPT !.has = {"usages"}, !.items = usages.items]
  IN IF mr.kind = "throw" THEN Throw(mr.err)
     ELSE IF usages.jt = "null" THEN Throw(NullRead("length"))
     ELSE IF LengthIsZero(usages)
     THEN Result(<<TextBlock(<<"No program usages found.">>)>>, props)
     ELSE IF usages.jt /= "array" THEN Throw(NotAFunction("usages.map"))
     ELSE Result(<<TextBlock(
            Join([i \in 1..Len(usages.items) |-> UsageLine(usages.items[i])], <<"\n">>))>>,
            props)

(***************************************************************************)
(* The tool registry (the ListTools handler) and the call-tool dispatcher. *)
(***************************************************************************)
\* the descriptors' names, in the order the listing returns them
\* faulty variant: the handler sorts the descriptor array before it returns it
ListToolsSorted ==
  <<"eval_program", "export_program", "get_keywords", "get_program_details",
    "get_sequence", "get_stats", "get_submitters", "get_usage_stats",
    "search_programs", "search_sequences", "submit_program">>

\* the ListToolsRequestSchema handler: the names of the descriptors it returns,
\* in the order of its array literal
ListTools ==
  <<"get_program_details", "search_programs", "eval_program", "export_program",
    "submit_program", "get_sequence", "search_sequences", "get_stats", "get_keywords",
    "get_submitters", "get_usage_stats">>

\* faulty variant: the switch keeps a case label of an earlier version of the tool
\* list and lacks the label of a tool added since
SwitchCasesRenamed ==
  {"get_program", "search_programs", "eval_program", "export_program",
   "submit_program", "get_sequence", "search_sequences", "get_stats", "get_keywords",
   "get_submitters"}

\* the case labels of the dispatcher's switch
SwitchCases ==
  {"get_program_details", "search_programs", "eval_program", "export_program",
   "submit_program", "get_sequence", "search_sequences", "get_stats", "get_keywords",
   "get_submitters", "get_usage_stats"}

\* const safeArgs = (args && typeof args === 'object') ? args : {}
\* (raw is the arguments value; raw.fields its properties, if it is an object)
SafeArgsValue(raw) ==
  IF Truthy(raw.value) /\ TypeOf(raw.value) = "object" THEN raw
  ELSE [value |-> [type |-> "object", s |-> <<>>, n |-> 0], fields |-> NoArgs]
\* the properties of safeArgs, which the handlers destructure
SafeArgs(raw) == SafeArgsValue(raw).fields

\* the validation a handler runs before its first await
HandlerCheck(name, args) ==
  CASE name \in {"get_sequence", "get_program_details"} -> IdCheck(args)
    [] name \in {"search_sequences", "search_programs"} -> QCheck(args)
    [] name \in {"eval_program", "export_program"} -> CodeCheck(args)
    [] name = "submit_program" -> SubmitCheck(args)
    [] OTHER -> NoError

\* the request the handler's client call hands to fetch
HandlerRequest(name, args) ==
  CASE name = "get_sequence" -> getSequence(args.id)
    [] name = "get_program_details" -> getProgram(args.id)
    [] name = "search_sequences" ->
         searchSequences(args.q, args.limit, args.skip, args.shuffle)
    [] name = "search_programs" ->
         searchPrograms(args.q, args.limit, args.skip, args.shuffle)
    [] name = "eval_program" -> evalProgram(args.code, args.t, args.o)
    [] name = "export_program" -> exportProgram(args.code, args.format)
    [] name = "submit_program" -> submitProgram(args.id, args.code, args.submitter)
    [] name = "get_stats" -> getStats
    [] name = "get_keywords" -> getKeywords
    [] name = "get_submitters" -> getSubmitters
    [] OTHER -> getUsageStats

\* the handler the switch selects, run against the behaviour `up`
Handler(name, args, up) ==
  CASE name = "get_program_details" -> handleGetProgramDetails(args, up)
    [] name = "search_programs" -> handleSearchPrograms(args, up)
    [] name = "eval_program" -> handleEvalProgram(args, up)
    [] name = "export_program" -> handleExportProgram(args, up)
    [] name = "submit_program" -> handleSubmitProgram(args, up)
    [] name = "get_sequence" -> handleGetSequence(args, up)
    [] name = "search_sequences" -> handleSearchSequences(args, up)
    [] name = "get_stats" -> handleGetStats(up)
    [] name = "get_keywords" -> handleGetKeywords(up)
    [] name = "get_submitters" -> handleGetSubmitters(up)
    [] OTHER -> handleGetUsageStats(up)

\* the catch block of the dispatcher
CallToolCatch(name, error) ==
  McpError(InternalError,
           <<"Error executing tool ", name, ": ">>
           \o (IF IsError(error) THEN error.message ELSE <<"Unknown error">>))

\* faulty variant, `return await this.handleXxx(safeArgs)`: the rejection is caught and
\* wrapped by the dispatcher's catch block
AwaitHandlerPromise(name, outcome) ==
  IF outcome.kind = "throw" THEN Throw(CallToolCatch(name, outcome.err)) ELSE outcome

\* `return this.handleXxx(safeArgs)` inside the try block: the handler's promise is
\* returned without await, so its rejection settles the dispatcher's promise and
\* the catch block is not run for it
ReturnHandlerPromise(name, outcome) == outcome

\* default: throw new McpError(ErrorCode.MethodNotFound, ...), thrown inside the
\* try block and so caught by the dispatcher's own catch block
DefaultCase(name) ==
  Throw(CallToolCatch(name, McpError(MethodNotFound, <<"Unknown tool: ", name>>)))

\* the CallToolRequestSchema handler, run against the behaviour `up`
CallTool(name, raw, up) ==
  IF name \in SwitchCases
  THEN ReturnHandlerPromise(name, Handler(name, SafeArgs(raw), up))
  ELSE DefaultCase(name)

\* whether the call reaches the fetch of makeRequest (its one suspension point)
IssuesRequest(name, raw) ==
  name \in SwitchCases /\ HandlerCheck(name, SafeArgs(raw)) = NoError

(***************************************************************************)
(* Inputs: tool names, argument values and behaviours of the remote API.   *)
(***************************************************************************)
Obj == [type |-> "object", s |-> <<>>, n |-> 0]
Raw(value, fields) == [value |-> value, fields |-> fields]
Args(fields) == Raw(Obj, fields)

A000045 == <<"A", "0", "0", "0", "0", "4", "5">>
Z45 == <<"Z", "4", "5">>
A45 == <<"A", "4", "5">>
Code == <<"mov $0,1">>

ToolNames == {ListTools[i] : i \in 1..Len(ListTools)} \cup {"get_program", "no_such_tool"}

RawArguments ==
  { Raw(Undef, NoArgs), Raw(Null, NoArgs), Raw(Num(5), NoArgs), Raw(Str(<<"x">>), NoArgs),
    Raw(Bool(TRUE), NoArgs), Raw(Arr(A000045), NoArgs), Args(NoArgs),
    Args([NoArgs EXCEPT !.id = Str(A000045)]),
    Args([NoArgs EXCEPT !.id = Str(Z45)]),
    Args([NoArgs EXCEPT !.id = Str(A45)]),
    Args([NoArgs EXCEPT !.id = Arr(A000045), !.code = Str(Code)]),
    Args([NoArgs EXCEPT !.id = Str(A000045), !.code = Str(Code)]),
    Args([NoArgs EXCEPT !.id = Str(A000045), !.code = Str(Code),
                        !.submitter = Str(<<"alice">>)]),
    Args([NoArgs EXCEPT !.id = Str(A000045), !.code = Str(<<>>)]),
    Args([NoArgs EXCEPT !.q = Str(<<"core">>)]),
    Args([NoArgs EXCEPT !.q = Str(<<>>)]),
    Args([NoArgs EXCEPT !.q = Num(5)]),
    Args([NoArgs EXCEPT !.q = Str(<<"core">>), !.limit = Num(0)]),
    Args([NoArgs EXCEPT !.q = Str(<<"core">>), !.limit = Num(101)]),
    Args([NoArgs EXCEPT !.q = Str(<<"core">>), !.limit = Num(10), !.skip = Num(-1)]),
    Args([NoArgs EXCEPT !.code = Str(Code)]),
    Args([NoArgs EXCEPT !.code = Num(7)]),
    Args([NoArgs EXCEPT !.code = Str(Code), !.format = Str(<<"pari">>)]),
    Args([NoArgs EXCEPT !.code = Str(Code), !.format = Str(<<"xml">>)]) }

Responds(ok, status, statusText, contentType, jsonOk, json, text, textFails) ==
  [fetch |-> "responds", thrown |-> NoError, ok |-> ok, status |-> status,
   statusText |-> statusText, contentType |-> contentType, jsonOk |-> jsonOk,
   json |-> json, text |-> text, textFails |-> textFails]
FetchThrows(e) ==
  [fetch |-> "throws", thrown |-> e, ok |-> FALSE, status |-> 0, statusText |-> <<>>,
   contentType |-> <<>>, jsonOk |-> FALSE, json |-> JsonNull, text |-> <<>>,
   textFails |-> FALSE]
OkJson(json) ==
  Responds(TRUE, 200, <<"OK">>, <<"application/json", "; charset=utf-8">>, TRUE, json,
           <<>>, FALSE)

Fibonacci ==
  [EmptyObject EXCEPT !.has = {"id", "name", "terms"}, !.id = A000045,
                      !.name = <<"Fibonacci numbers">>,
                      !.terms = << <<"0">>, <<"1">>, <<"1">>, <<"2">>, <<"3">> >>]
ProgramBody ==
  [EmptyObject EXCEPT !.has = {"id", "name", "code", "submitter", "usages"},
                      !.id = A000045, !.name = <<"Fibonacci numbers">>, !.code = Code,
                      !.submitter = <<"alice">>, !.usages = << <<"A000032">> >>]
NoResults == [EmptyObject EXCEPT !.has = {"total", "results"}]
TwoResults ==
  [EmptyObject EXCEPT !.has = {"total", "results"}, !.total = 2,
     !.results = << Entry(A000045, <<"Fibonacci numbers">>, TRUE, << <<"core">>, <<"easy">> >>),
                    Entry(<<"A000032">>, <<"Lucas numbers">>, FALSE, <<>>) >>]
\* a search answer that also carries a property named content
NoResultsWithContent ==
  [NoResults EXCEPT !.has = {"total", "results", "content"},
                    !.content = <<TextBlock(<<"upstream">>)>>]
EvalSuccess ==
  [EmptyObject EXCEPT !.has = {"status", "message", "terms"}, !.status = <<"success">>,
                      !.terms = << <<"1">>, <<"1">>, <<"2">> >>]
EvalFailure ==
  [EmptyObject EXCEPT !.has = {"status", "message", "terms"}, !.status = <<"error">>,
                      !.message = <<"timeout">>, !.terms = << <<"1">> >>]
ExportSuccess ==
  [EmptyObject EXCEPT !.has = {"status", "message", "output"}, !.status = <<"success">>,
                      !.output = <<"a(n) = 1">>]
StatsBody ==
  [EmptyObject EXCEPT !.has = {"numSequences", "numPrograms", "numFormulas"},
                      !.numSequences = 3, !.numPrograms = 2, !.numFormulas = 1]
ListBody == JsonArray(<< Entry(A000045, <<"core">>, FALSE, <<>>) >>)
\* a JSON object of another shape, such as { "error": "..." }
OtherShape == EmptyObject

Bodies ==
  { Fibonacci, ProgramBody, NoResults, TwoResults, NoResultsWithContent, EvalSuccess,
    EvalFailure, ExportSuccess, StatsBody, ListBody, JsonArray(<<>>), OtherShape, JsonNull }

Upstreams ==
  { OkJson(j) : j \in Bodies }
  \cup { Responds(TRUE, 200, <<"OK">>, <<"text/plain">>, FALSE, JsonNull, <<"hello">>, FALSE),
         Responds(TRUE, 200, <<"OK">>, <<>>, FALSE, JsonNull, <<>>, FALSE),
         Responds(TRUE, 200, <<"OK">>, <<"application/json">>, FALSE, JsonNull,
                  <<"<html>">>, FALSE),
         Responds(FALSE, 500, <<"Internal Server Error">>, <<"text/plain">>, FALSE, JsonNull,
                  <<"boom">>, FALSE),
         Responds(FALSE, 404, <<"Not Found">>, <<>>, FALSE, JsonNull, <<>>, FALSE),
         Responds(FALSE, 502, <<"Bad Gateway">>, <<>>, FALSE, JsonNull, <<>>, TRUE),
         FetchThrows(JsError("TypeError", <<"fetch", " failed">>)),
         FetchThrows(JsError("TypeError", <<"Failed to parse URL">>)),
         FetchThrows(JsError("nonError", <<"aborted">>)) }

(***************************************************************************)
(* State.                                                                  *)
(***************************************************************************)
VARIABLES
  argv,           \* process.argv.slice(2): the command line, one character sequence
                  \* per argument
  mode,           \* "stdio" or "http": the branch taken on `port !== undefined`
                  \* ("start" before that)
  running,        \* FALSE once process.exit has been called
  exit,           \* the exit status and the diagnostic logged before process.exit
  capturesTransport, \* the SDK build: TRUE if the protocol server answers a request
                  \* on the transport it was connected to when the request
                  \* arrived, FALSE if on the one it is connected to when the
                  \* answer is ready
  tr,             \* the transports created so far, by creation order
  transports,     \* runHttp's session table: the pairs <<session id, transport>>
  serverTransport,\* the transport the shared protocol server is connected to
  inflight,       \* tool calls suspended in the fetch of makeRequest
  lastHttp,       \* what the HTTP front end did with the last request
  lastCall,       \* the last tool call the dispatcher started or settled
  lastDelivery,   \* where the last response was sent
  lastList        \* the descriptor names the last tools/list request returned

vars ==
  <<argv, mode, running, exit, capturesTransport, tr, transports, serverTransport, inflight,
    lastHttp, lastCall, lastDelivery, lastList>>

\* req.headers['mcp-session-id'] when the header is absent
NoSessionId == 0
\* the process has not exited: no status, nothing logged on the way out
NoExit == [code |-> 0, cause |-> "none", log |-> ""]
\* console.error(log, ...); process.exit(1)
ProcessExit(cause, log) == [code |-> 1, cause |-> cause, log |-> log]
\* a header value that names a property every object literal inherits, such as
\* "constructor": the session table is the plain object {}
PrototypeKey == -1

NoOutcome == [kind |-> "none", err |-> NoError, content |-> <<>>, props |-> EmptyObject]
NoUpstream == FetchThrows(NoError)
NoHttp ==
  [verb |-> "none", header |-> NoSessionId, body |-> "none", status |-> 0,
   forwardedTo |-> 0, created |-> 0]
\* no request handed to fetch
NoRequest == [url |-> <<>>, query |-> <<>>, method |-> "none", headers |-> {}, body |-> <<>>]
NoCall ==
  [name |-> "none", raw |-> Raw(Undef, NoArgs), handed |-> Raw(Undef, NoArgs),
   requests |-> 0, settled |-> FALSE,
   repeat |-> FALSE, request |-> NoRequest, up |-> NoUpstream,
   handled |-> NoOutcome, outcome |-> NoOutcome]
NoDelivery == [origin |-> 0, via |-> 0, rid |-> 0, delivered |-> FALSE]
\* no tools/list request was the last one handled
NoListing == <<>>

RequestIds == 1..MaxRequestId
TransportIds == 1..Len(tr)
\* the session ids generated so far (randomUUID never repeats one)
IssuedIds == {tr[t].sessionId : t \in TransportIds} \ {NoSessionId}
FreshId == Cardinality(IssuedIds) + 1

StdioTransport ==
  [kind |-> "stdio", sessionId |-> NoSessionId, initialized |-> TRUE, closed |-> FALSE,
   deleted |-> FALSE, pending |-> {}]
\* new StreamableHTTPServerTransport({...})
NewTransport ==
  [kind |-> "http", sessionId |-> NoSessionId, initialized |-> FALSE, closed |-> FALSE,
   deleted |-> FALSE, pending |-> {}]

(***************************************************************************)
(* The dispatcher's part of an action: a call that is started, and a call  *)
(* that settles.                                                           *)
(***************************************************************************)
\* the handler's own outcome (none when the switch finds no handler)
Handled(name, raw, up) ==
  IF name \in SwitchCases THEN Handler(name, SafeArgs(raw), up) ELSE NoOutcome

\* faulty variant: a failed request is sent a second time
FetchCountRetry(up) == IF makeRequestTry(up).kind = "throw" THEN 2 ELSE 1

\* how many times one run of makeRequest calls fetch: the call at the head of
\* its try block, which no loop encloses and which the catch block does not repeat
FetchCount(up) == 1

\* the handler is suspended in its fetch; `repeat` tells that the call is the one
\* settled just before, with the same name and arguments
StartedCall(name, raw) ==
  [name |-> name, raw |-> raw, handed |-> SafeArgsValue(raw), requests |-> 1,
   settled |-> FALSE,
   repeat |-> (lastCall.settled /\ lastCall.requests > 0
               /\ lastCall.name = name /\ lastCall.raw = raw),
   request |-> HandlerRequest(name, SafeArgs(raw)), up |-> NoUpstream,
   handled |-> NoOutcome, outcome |-> NoOutcome]
SettledCall(name, raw, up, requests) ==
  [name |-> name, raw |-> raw, handed |-> SafeArgsValue(raw), requests |-> requests,
   settled |-> TRUE,
   repeat |-> FALSE,
   request |-> IF requests > 0 THEN HandlerRequest(name, SafeArgs(raw)) ELSE NoRequest,
   up |-> up,
   handled |-> Handled(name, raw, up), outcome |-> CallTool(name, raw, up)]

(***************************************************************************)
(* Stdio mode: one transport on stdin/stdout, no sessions.  The client     *)
(* modelled here waits for each answer before its next call; the           *)
(* dispatcher keeps no state between calls.                                *)
(***************************************************************************)
InitStdio ==
  /\ argv = <<>>
  /\ mode = "stdio"
  /\ running = TRUE
  /\ exit = NoExit
  /\ capturesTransport \in BOOLEAN
  /\ tr = <<StdioTransport>>
  /\ transports = {}
  /\ serverTransport = 1
  /\ inflight = {}
  /\ lastHttp = NoHttp
  /\ lastCall = NoCall
  /\ lastDelivery = NoDelivery
  /\ lastList = NoListing

\* a tools/call request arrives on stdin
StdioCall(name, raw) ==
  /\ mode = "stdio"
  /\ running
  /\ inflight = {}
  /\ IF IssuesRequest(name, raw)
     THEN /\ inflight' = {[origin |-> 1, connected |-> serverTransport, rid |-> 1, name |-> name,
                           raw |-> raw]}
          /\ lastCall' = StartedCall(name, raw)
          /\ lastDelivery' = NoDelivery
     ELSE /\ inflight' = inflight
          /\ lastCall' = SettledCall(name, raw, NoUpstream, 0)
          /\ lastDelivery' = [origin |-> 1, via |-> serverTransport, rid |-> 1,
                              delivered |-> TRUE]
  /\ lastList' = NoListing
  /\ UNCHANGED <<argv, mode, running, exit, capturesTransport, tr, transports, serverTransport, lastHttp>>

\* the fetch of a suspended call settles and its handler runs to the end
StdioComplete(c, up) ==
  /\ mode = "stdio"
  /\ running
  /\ c \in inflight
  /\ inflight' = inflight \ {c}
  /\ lastCall' = SettledCall(c.name, c.raw, up, FetchCount(up))
  /\ lastDelivery' = [origin |-> c.origin, via |-> serverTransport, rid |-> c.rid,
                      delivered |-> TRUE]
  /\ lastList' = NoListing
  /\ UNCHANGED <<argv, mode, running, exit, capturesTransport, tr, transports, serverTransport, lastHttp>>

\* a tools/list request arrives on stdin
StdioListTools ==
  /\ mode = "stdio"
  /\ running
  /\ inflight = {}
  /\ lastList' = ListTools
  /\ lastCall' = NoCall
  /\ lastDelivery' = [origin |-> 1, via |-> serverTransport, rid |-> 1, delivered |-> TRUE]
  /\ UNCHANGED <<argv, mode, running, exit, capturesTransport, tr, transports, serverTransport,
                 inflight, lastHttp>>

NextStdio ==
  \/ StdioListTools
  \/ \E name \in ToolNames, raw \in RawArguments : StdioCall(name, raw)
  \/ \E c \in inflight, up \in Upstreams : StdioComplete(c, up)

SpecStdio == InitStdio /\ [][NextStdio]_vars

(***************************************************************************)
(* HTTP mode: runHttp.  An express route handler runs to its first real    *)
(* suspension (the fetch of a tool handler) in one step: awaiting          *)
(* server.connect and transport.handleRequest yields only to microtasks.   *)
(***************************************************************************)
\* sessionId && transports[sessionId]: the transport, 0 for undefined (falsy), or
\* the inherited value (PrototypeKey, truthy and no transport) that the property
\* read finds on Object.prototype
Lookup(table, sessionId) ==
  IF sessionId = NoSessionId THEN 0
  ELSE IF \E p \in table : p[1] = sessionId
  THEN (CHOOSE p \in table : p[1] = sessionId)[2]
  ELSE IF sessionId = PrototypeKey THEN PrototypeKey
  ELSE 0

\* faulty variant: the callback stores the transport under the request's header, which
\* an initialize request does not carry, instead of under the id it is given
OnSessionInitializedByHeader(table, sid, t) == table \cup {<<NoSessionId, t>>}

\* faulty variant: the callback starts the table afresh
OnSessionInitializedResets(table, sid, t) == {<<sid, t>>}
\* onsessioninitialized: (sid) => { transports[sid] = transport; }
OnSessionInitialized(table, sid, t) == {p \in table : p[1] /= sid} \cup {<<sid, t>>}

\* faulty variant: onclose leaves the table as it is
OnCloseKeeps(table, transport) == table
\* faulty variant: onclose empties the table
OnCloseClears(table, transport) == {}

\* transport.onclose = () => { if (transport.sessionId) delete transports[transport.sessionId]; }
OnClose(table, transport) ==
  IF transport.sessionId /= NoSessionId
  THEN {p \in table : p[1] /= transport.sessionId}
  ELSE table

\* the else branch of the POST route: which transport the route creates
\* (0: none) for the transport its lookup found (0: none)
CreatedFor(found) == IF found = 0 THEN Len(tr) + 1 ELSE 0

\* server.connect(transport): the shared protocol server takes the transport
Connect(current, t) == t

\* the transport a response is sent on, for a request that arrived while the
\* protocol server was connected to `connected`
Route(connected) == IF capturesTransport THEN connected ELSE serverTransport

\* transport.send(response): written on the stream kept for the request id,
\* if the transport holds one
CanDeliver(trs, via, rid) ==
  /\ via \in 1..Len(trs)
  /\ ~trs[via].closed
  /\ rid \in trs[via].pending
Deliver(trs, via, rid) ==
  IF CanDeliver(trs, via, rid)
  THEN [trs EXCEPT ![via].pending = @ \ {rid}]
  ELSE trs
Delivery(trs, origin, via, rid) ==
  [origin |-> origin, via |-> via, rid |-> rid, delivered |-> CanDeliver(trs, via, rid)]

\* transport.close(): its streams end and its onclose callback runs
Closed(transport, byDelete) ==
  [transport EXCEPT !.closed = TRUE, !.deleted = byDelete, !.pending = {}]

InitHttp ==
  /\ argv = <<<<"-", "p">>, <<"8", "0", "8", "0">>>>
  /\ mode = "http"
  /\ running = TRUE
  /\ exit = NoExit
  /\ capturesTransport \in BOOLEAN
  /\ tr = <<>>
  /\ transports = {}
  /\ serverTransport = 0
  /\ inflight = {}
  /\ lastHttp = NoHttp
  /\ lastCall = NoCall
  /\ lastDelivery = NoDelivery
  /\ lastList = NoListing

\* the session id headers a client may send: none, an id generated so far
\* (registered or not any more), one the server never generates, or the name of
\* an inherited property
Headers == {NoSessionId, PrototypeKey} \cup IssuedIds \cup {MaxTransports + 1}

\* POST /v2/mcp with an initialize request as its body
PostInitialize(h) ==
  LET found == Lookup(transports, h)
      new == CreatedFor(found)
  IN /\ mode = "http"
     /\ running
     /\ found /= PrototypeKey
     /\ IF found /= 0
        THEN \* the session's transport refuses a second initialize
             /\ lastHttp' = [verb |-> "POST", header |-> h, body |-> "initialize",
                             status |-> 400, forwardedTo |-> found, created |-> 0]
             /\ UNCHANGED <<tr, transports, serverTransport>>
        ELSE /\ Len(tr) < MaxTransports
             /\ tr' = Append(tr, [NewTransport EXCEPT !.sessionId = FreshId,
                                                      !.initialized = TRUE])
             /\ serverTransport' = Connect(serverTransport, new)
             /\ transports' = OnSessionInitialized(transports, FreshId, new)
             /\ lastHttp' = [verb |-> "POST", header |-> h, body |-> "initialize",
                             status |-> 200, forwardedTo |-> new, created |-> 1]
     /\ lastCall' = NoCall
     /\ lastDelivery' = NoDelivery
     /\ lastList' = NoListing
     /\ UNCHANGED <<argv, mode, running, exit, capturesTransport, inflight>>

\* faulty variant: a transport takes a request only while no call is suspended
TransportAcceptsWhenIdle(transport, h) ==
  inflight = {} /\ transport.initialized /\ ~transport.closed /\ transport.sessionId = h
\* the transport's own check of a request that is not initialize: it must be
\* initialized and the header must name its session
TransportAccepts(transport, h) ==
  transport.initialized /\ ~transport.closed /\ transport.sessionId = h

\* POST /v2/mcp with a tools/call request as its body, on a registered session
PostCall(h, rid, name, raw) ==
  LET t == Lookup(transports, h)
      accepted == [tr EXCEPT ![t].pending = @ \cup {rid}]
  IN /\ mode = "http"
     /\ running
     /\ t \in TransportIds
     /\ rid \notin tr[t].pending
     /\ \A c \in inflight : ~(c.origin = t /\ c.rid = rid)
     /\ IF ~TransportAccepts(tr[t], h)
        THEN /\ lastHttp' = [verb |-> "POST", header |-> h, body |-> "call",
                             status |-> 400, forwardedTo |-> t, created |-> 0]
             /\ lastCall' = NoCall
             /\ lastDelivery' = NoDelivery
             /\ UNCHANGED <<tr, inflight>>
        ELSE /\ lastHttp' = [verb |-> "POST", header |-> h, body |-> "call",
                             status |-> 200, forwardedTo |-> t, created |-> 0]
             /\ IF IssuesRequest(name, raw)
                THEN /\ inflight' = inflight \cup
                                    {[origin |-> t, connected |-> serverTransport, rid |-> rid,
                                      name |-> name, raw |-> raw]}
                     /\ tr' = accepted
                     /\ lastCall' = StartedCall(name, raw)
                     /\ lastDelivery' = NoDelivery
                ELSE /\ inflight' = inflight
                     /\ tr' = Deliver(accepted, Route(serverTransport), rid)
                     /\ lastCall' = SettledCall(name, raw, NoUpstream, 0)
                     /\ lastDelivery' = Delivery(accepted, t, Route(serverTransport), rid)
     /\ lastList' = NoListing
     /\ UNCHANGED <<argv, mode, running, exit, capturesTransport, transports, serverTransport>>

\* POST /v2/mcp with a tools/list request as its body, on a registered session:
\* the handler returns at once, so the response is written in the same step
PostListTools(h, rid) ==
  LET t == Lookup(transports, h)
      accepted == [tr EXCEPT ![t].pending = @ \cup {rid}]
  IN /\ mode = "http"
     /\ running
     /\ t \in TransportIds
     /\ TransportAccepts(tr[t], h)
     /\ rid \notin tr[t].pending
     /\ \A c \in inflight : ~(c.origin = t /\ c.rid = rid)
     /\ lastHttp' = [verb |-> "POST", header |-> h, body |-> "list", status |-> 200,
                     forwardedTo |-> t, created |-> 0]
     /\ tr' = Deliver(accepted, Route(serverTransport), rid)
     /\ lastList' = ListTools
     /\ lastCall' = NoCall
     /\ lastDelivery' = Delivery(accepted, t, Route(serverTransport), rid)
     /\ UNCHANGED <<argv, mode, running, exit, capturesTransport, transports, serverTransport, inflight>>

\* POST /v2/mcp with a request that is not initialize and no registered session
\* id: the route creates and connects a transport, which then refuses the request
PostCallNoSession(h) ==
  LET found == Lookup(transports, h)
      new == CreatedFor(found)
  IN /\ mode = "http"
     /\ running
     /\ found = 0
     /\ Len(tr) < MaxTransports
     /\ tr' = Append(tr, NewTransport)
     /\ serverTransport' = Connect(serverTransport, new)
     /\ lastHttp' = [verb |-> "POST", header |-> h, body |-> "call", status |-> 400,
                     forwardedTo |-> new, created |-> 1]
     /\ lastCall' = NoCall
     /\ lastDelivery' = NoDelivery
     /\ lastList' = NoListing
     /\ UNCHANGED <<argv, mode, running, exit, capturesTransport, transports, inflight>>

\* handleSessionRequest, for GET and for DELETE
HandleSessionRequest(verb, h) ==
  LET t == Lookup(transports, h)
  IN /\ mode = "http"
     /\ running
     /\ t /= PrototypeKey
     /\ IF t = 0
        THEN /\ lastHttp' = [verb |-> verb, header |-> h, body |-> "none", status |-> 400,
                             forwardedTo |-> 0, created |-> 0]
             /\ UNCHANGED <<tr, transports>>
        ELSE IF ~TransportAccepts(tr[t], h)
        THEN /\ lastHttp' = [verb |-> verb, header |-> h, body |-> "none", status |-> 400,
                             forwardedTo |-> t, created |-> 0]
             /\ UNCHANGED <<tr, transports>>
        ELSE /\ lastHttp' = [verb |-> verb, header |-> h, body |-> "none", status |-> 200,
                             forwardedTo |-> t, created |-> 0]
             /\ IF verb = "DELETE"
                THEN \* the transport closes itself, which runs onclose
                     /\ tr' = [tr EXCEPT ![t] = Closed(@, TRUE)]
                     /\ transports' = OnClose(transports, tr[t])
                ELSE UNCHANGED <<tr, transports>>
     /\ lastCall' = NoCall
     /\ lastDelivery' = NoDelivery
     /\ lastList' = NoListing
     /\ UNCHANGED <<argv, mode, running, exit, capturesTransport, serverTransport, inflight>>

Get(h) == HandleSessionRequest("GET", h)
Delete(h) == HandleSessionRequest("DELETE", h)

\* a transport signals closure by itself (disconnect, internal failure)
TransportClose(t) ==
  /\ mode = "http"
  /\ running
  /\ t \in TransportIds
  /\ tr[t].initialized
  /\ ~tr[t].closed
  /\ tr' = [tr EXCEPT ![t] = Closed(@, FALSE)]
  /\ transports' = OnClose(transports, tr[t])
  /\ lastHttp' = NoHttp
  /\ lastCall' = NoCall
  /\ lastDelivery' = NoDelivery
  /\ lastList' = NoListing
  /\ UNCHANGED <<argv, mode, running, exit, capturesTransport, serverTransport, inflight>>

\* the fetch of a suspended call settles, its handler runs to the end and the
\* protocol server sends the response
HttpComplete(c, up) ==
  /\ mode = "http"
  /\ running
  /\ c \in inflight
  /\ inflight' = inflight \ {c}
  /\ tr' = Deliver(tr, Route(c.connected), c.rid)
  /\ lastCall' = SettledCall(c.name, c.raw, up, FetchCount(up))
  /\ lastDelivery' = Delivery(tr, c.origin, Route(c.connected), c.rid)
  /\ lastHttp' = NoHttp
  /\ lastList' = NoListing
  /\ UNCHANGED <<argv, mode, running, exit, capturesTransport, transports, serverTransport>>

\* a route handler whose lookup found an inherited value: it is truthy, so the
\* handler calls handleRequest on it, which throws a TypeError and rejects the
\* handler's promise.  Either nothing handles the rejection and the
\* unhandledRejection listener exits the process, or the web framework answers
\* 500, depending on its version.
RouteThrows(verb, h, exits) ==
  /\ mode = "http"
  /\ running
  /\ Lookup(transports, h) = PrototypeKey
  /\ running' = ~exits
  /\ exit' = IF exits THEN ProcessExit("unhandledRejection", "Unhandled Rejection at:")
              ELSE exit
  /\ lastHttp' = [verb |-> verb, header |-> h, body |-> "none",
                  status |-> IF exits THEN 0 ELSE 500, forwardedTo |-> 0, created |-> 0]
  /\ lastCall' = NoCall
  /\ lastDelivery' = NoDelivery
  /\ lastList' = NoListing
  /\ UNCHANGED <<argv, mode, capturesTransport, tr, transports, serverTransport, inflight>>

\* the tool calls and the answers of the remote API drawn in HTTP mode
HttpCalls ==
  { <<"get_stats", Raw(Undef, NoArgs)>>,
    <<"get_sequence", Args([NoArgs EXCEPT !.id = Str(Z45)])>>,
    <<"no_such_tool", Raw(Undef, NoArgs)>> }
HttpUpstreams ==
  { OkJson(StatsBody),
    Responds(FALSE, 500, <<"Internal Server Error">>, <<"text/plain">>, FALSE, JsonNull,
             <<"boom">>, FALSE) }

Next ==
  \/ \E h \in Headers : PostInitialize(h)
  \/ \E h \in Headers, rid \in RequestIds, call \in HttpCalls :
       PostCall(h, rid, call[1], call[2])
  \/ \E h \in Headers, rid \in RequestIds : PostListTools(h, rid)
  \/ \E h \in Headers : PostCallNoSession(h)
  \/ \E h \in Headers : Get(h)
  \/ \E h \in Headers : Delete(h)
  \/ \E t \in TransportIds : TransportClose(t)
  \/ \E c \in inflight, up \in HttpUpstreams : HttpComplete(c, up)
  \/ \E verb \in {"POST", "GET", "DELETE"}, h \in Headers, exits \in BOOLEAN :
       RouteThrows(verb, h, exits)

Spec == InitHttp /\ [][Next]_vars

\* the fetch of the call with request id `rid` on transport t settles
HttpCompleteOn(t, rid) ==
  \E c \in inflight, up \in HttpUpstreams : c.origin = t /\ c.rid = rid /\ HttpComplete(c, up)
\* HTTP mode in which the remote API may leave the first session's calls
\* unanswered for ever and answers every other call in the end: the
\* continuation of a settled fetch is run by the event loop
SpecFair ==
  /\ InitHttp
  /\ [][Next]_vars
  /\ \A t \in 2..MaxTransports, rid \in RequestIds : WF_vars(HttpCompleteOn(t, rid))

(***************************************************************************)
(* Process start: getPortArg and the branch that enters one of the modes.  *)
(***************************************************************************)
MaxArgs == 2

NaN == [type |-> "number", s |-> <<"NaN">>, n |-> 0]

\* s.startsWith(prefix)
StartsWith(s, prefix) ==
  Len(s) >= Len(prefix) /\ SubSeq(s, 1, Len(prefix)) = prefix

\* s.split(sep)[1]: what stands between the first and the second separator
SplitSecond(s, sep) ==
  LET seps == {i \in 1..Len(s) : s[i] = sep}
      first == CHOOSE i \in seps : \A j \in seps : i <= j
      later == {i \in seps : i > first}
      stop == IF later = {} THEN Len(s) + 1
              ELSE CHOOSE i \in later : \A j \in later : i <= j
  IN IF seps = {} THEN <<>> ELSE SubSeq(s, first + 1, stop - 1)

RECURSIVE DecimalValue(_)
DecimalValue(digits) ==
  IF digits = <<>> THEN 0
  ELSE 10 * DecimalValue(SubSeq(digits, 1, Len(digits) - 1))
       + (CHOOSE d \in 0..9 : ToString(d) = digits[Len(digits)])

\* parseInt(s, 10): an optional sign, then the longest run of digits; NaN if
\* there is no digit at that place
ParseInt(s) ==
  LET signed == s /= <<>> /\ s[1] \in {"-", "+"}
      body == IF signed THEN Tail(s) ELSE s
      stops == {i \in 1..Len(body) : body[i] \notin Digits}
      len == IF stops = {} THEN Len(body)
             ELSE (CHOOSE i \in stops : \A j \in stops : i <= j) - 1
      value == DecimalValue(SubSeq(body, 1, len))
  IN IF len = 0 THEN NaN
     ELSE Num(IF signed /\ s[1] = "-" THEN 0 - value ELSE value)

\* the loop of getPortArg from index i on (i counts from 1)
RECURSIVE getPortArgFrom(_, _)
getPortArgFrom(a, i) ==
  IF i > Len(a) THEN Undef
  ELSE IF a[i] = <<"-", "-", "p", "o", "r", "t">> /\ i < Len(a) /\ a[i + 1] /= <<>>
  THEN ParseInt(a[i + 1])
  ELSE IF StartsWith(a[i], <<"-", "-", "p", "o", "r", "t", "=">>)
  THEN ParseInt(SplitSecond(a[i], "="))
  ELSE IF a[i] \in {<<"-", "p">>, <<"-", "-", "p">>} /\ i < Len(a) /\ a[i + 1] /= <<>>
  THEN ParseInt(a[i + 1])
  ELSE getPortArgFrom(a, i + 1)

\* faulty variant: the --port=N form is not recognised
getPortArgTwoWordForms(a) ==
  getPortArgFrom([i \in 1..Len(a) |->
                    IF StartsWith(a[i], <<"-", "-", "p", "o", "r", "t", "=">>)
                    THEN <<"x">> ELSE a[i]], 1)

getPortArg(a) == getPortArgFrom(a, 1)

\* app.listen(port): a port that is no integer of 0..65535 is refused
ValidPort(port) == port /= NaN /\ port.n \in 0..65535

\* the arguments a command line is made of
ArgWords ==
  { <<"-", "-", "p", "o", "r", "t">>, <<"-", "p">>, <<"-", "-", "p">>,
    <<"-", "-", "p", "o", "r", "t", "=", "8", "0">>,
    <<"-", "-", "p", "o", "r", "t", "=">>,
    <<"8", "0">>, <<"x">>, <<"-", "v">>, <<>> }
CommandLines == UNION {[1..n -> ArgWords] : n \in 0..MaxArgs}

InitStart ==
  /\ argv \in CommandLines
  /\ mode = "start"
  /\ running = TRUE
  /\ exit = NoExit
  /\ capturesTransport \in BOOLEAN
  /\ tr = <<>>
  /\ transports = {}
  /\ serverTransport = 0
  /\ inflight = {}
  /\ lastHttp = NoHttp
  /\ lastCall = NoCall
  /\ lastDelivery = NoDelivery
  /\ lastList = NoListing

\* a faulty variant: one diagnostic for every listener error
ListenErrorOneLog(code) == ProcessExit(code, "Server error:")
\* .on('error', (err) => { if (err.code === 'EADDRINUSE') ... else ... })
ListenError(code) ==
  IF code = "EADDRINUSE"
  THEN ProcessExit(code, "Error: Port is already in use or the server is already running.")
  ELSE ProcessExit(code, "Server error:")

\* const port = getPortArg(); if (port !== undefined) runHttp(...) else runStdio().
\* runHttp whose listen call fails (bad port, or a listener error such as the
\* port being in use) ends in process.exit(1): app.listen of a port that is no
\* port throws into runHttp(server, port).catch(...), and of a valid port comes
\* to the 'listening' event or to an 'error' event with the code `listen`.
Startup(listen) ==
  LET port == getPortArg(argv)
      ended == IF port = Undef \/ (ValidPort(port) /\ listen = "listening") THEN NoExit
               ELSE IF ~ValidPort(port)
               THEN ProcessExit("ERR_SOCKET_BAD_PORT", "Failed to run LODA MCP HTTP server:")
               ELSE ListenError(listen)
  IN /\ mode = "start"
     /\ exit' = ended
     /\ running' = (ended = NoExit)
     /\ IF port /= Undef
        THEN /\ mode' = "http"
             /\ tr' = <<>>
             /\ serverTransport' = 0
        ELSE /\ mode' = "stdio"
             /\ tr' = <<StdioTransport>>
             /\ serverTransport' = Connect(serverTransport, 1)
     /\ UNCHANGED <<argv, capturesTransport, transports, inflight, lastHttp, lastCall,
                    lastDelivery, lastList>>

\* the process from its start: the branch, then requests of either kind
NextStart ==
  \/ \E listen \in {"listening", "EADDRINUSE", "EACCES"} : Startup(listen)
  \/ StdioListTools
  \/ StdioCall("get_stats", Raw(Undef, NoArgs))
  \/ \E c \in inflight : StdioComplete(c, OkJson(StatsBody))
  \/ \E h \in Headers : PostInitialize(h)
  \/ \E h \in Headers : Delete(h)
SpecStart == InitStart /\ [][NextStart]_vars

(***************************************************************************)
(* Properties.                                                             *)
(***************************************************************************)
Registered(h) == \E p \in transports : p[1] = h
IsMcpError(outcome, code) ==
  outcome.kind = "throw" /\ outcome.err.class = "McpError" /\ outcome.err.code = code
ListedNames == {ListTools[i] : i \in 1..Len(ListTools)}

\* C1: a call of a tool name that is not registered fails with MethodNotFound,
\* message "Unknown tool: <name>", and sends no request to the remote API.
C1_UnknownToolIsMethodNotFound ==
  (lastCall.settled /\ lastCall.name \notin ListedNames)
    => /\ lastCall.outcome = Throw(McpError(MethodNotFound,
                                            <<"Unknown tool: ", lastCall.name>>))
       /\ lastCall.requests = 0

\* C2: when a handler fails with InvalidParams (bad id, missing q, missing code),
\* the error that leaves the dispatcher is that same error, code and message,
\* and it is the error of the failed validation.
C2_InvalidParamsUnchanged ==
  (lastCall.settled /\ IsMcpError(lastCall.handled, InvalidParams))
    => /\ lastCall.outcome = lastCall.handled
       /\ IsMcpError(lastCall.outcome, InvalidParams)
       /\ lastCall.outcome.err = HandlerCheck(lastCall.name, SafeArgs(lastCall.raw))
       /\ lastCall.outcome.err.message \in
            { <<"MCP error ", "-32602", ": ", "id must be a string like A000045">>,
              <<"MCP error ", "-32602", ": ", "q is required">>,
              <<"MCP error ", "-32602", ": ", "code is required">> }

\* a handler has thrown InvalidParams for a missing q
C2_Witness ==
  /\ lastCall.settled
  /\ lastCall.name = "search_sequences"
  /\ lastCall.handled = Throw(McpError(InvalidParams, <<"q is required">>))

\* C3: whatever the call and whatever the remote API does, what leaves the
\* dispatcher is a result with content blocks or one error of kind InvalidParams,
\* MethodNotFound or InternalError; no other exception type leaves it.
C3_OnlyNormalizedErrorsLeave ==
  lastCall.settled
    => \/ lastCall.outcome.kind = "result"
       \/ \E code \in {InvalidParams, MethodNotFound, InternalError} :
            IsMcpError(lastCall.outcome, code)

\* C4: when two live sessions each have a tool call in flight, every response
\* delivered next is delivered on the session that issued its request, never on
\* another one.
C4_ResponseOnOwnSession ==
  [][ ( /\ \E c, d \in inflight :
             /\ c.origin /= d.origin
             /\ ~tr[c.origin].closed
             /\ ~tr[d.origin].closed
        /\ lastDelivery'.delivered )
        => lastDelivery'.via = lastDelivery'.origin ]_vars

\* C5: once a DELETE on a registered session id has been processed, a later
\* POST or GET that carries this id is rejected and served by no transport.
C5_DeletedSessionRejected ==
  \A t \in TransportIds :
    (tr[t].deleted /\ lastHttp.verb \in {"POST", "GET"}
       /\ lastHttp.header = tr[t].sessionId)
      => (lastHttp.status = 400 /\ lastHttp.forwardedTo = 0)

\* C6: the session table maps each session id to at most one transport, which is
\* not closed and whose own session id is the key; a request is never handed to
\* a transport that was closed before (the DELETE that closes it excepted).
C6_TableHoldsLiveTransports ==
  /\ \A p, q \in transports : p[1] = q[1] => p = q
  /\ \A p \in transports :
       /\ p[2] \in TransportIds
       /\ ~tr[p[2]].closed
       /\ tr[p[2]].sessionId = p[1]
  /\ \A t \in TransportIds :
       (lastHttp.forwardedTo = t /\ tr[t].closed)
         => (lastHttp.verb = "DELETE" /\ tr[t].deleted)

\* a session has been destroyed while another one is registered
C6_Witness ==
  /\ \E t \in TransportIds : tr[t].closed /\ tr[t].sessionId /= NoSessionId
  /\ transports /= {}

\* C7: a transport is in the session table only once it has assigned its session
\* id, under that id; a transport that has not completed initialization cannot
\* be reached through the table by any header.
C7_NoHalfRegisteredSession ==
  /\ \A p \in transports :
       /\ p[1] /= NoSessionId
       /\ p[2] \in TransportIds
       /\ tr[p[2]].initialized
       /\ tr[p[2]].sessionId = p[1]
  /\ \A t \in TransportIds :
       ~tr[t].initialized => \A h \in Headers : Lookup(transports, h) /= t
  /\ \A t \in TransportIds :
       (tr[t].initialized /\ ~tr[t].closed) => <<tr[t].sessionId, t>> \in transports

\* a registered session beside a transport that never completed initialization
C7_Witness ==
  /\ transports /= {}
  /\ \E t \in TransportIds : ~tr[t].initialized

\* C8: a POST with a registered session id is forwarded to that session's
\* transport and creates none; any other POST creates exactly one transport,
\* connects it and forwards the request to it.
C8_PostRouting ==
  [][ lastHttp'.verb = "POST"
        => IF Registered(lastHttp'.header)
           THEN /\ Len(tr') = Len(tr)
                /\ <<lastHttp'.header, lastHttp'.forwardedTo>> \in transports
           ELSE /\ Len(tr') = Len(tr) + 1
                /\ lastHttp'.forwardedTo = Len(tr')
                /\ serverTransport' = Len(tr') ]_vars

\* C9: a GET or DELETE whose session id is absent or not in the table is
\* answered 400, handed to no transport, and leaves the table as it was.
C9_SessionRequestRejected ==
  [][ (lastHttp'.verb \in {"GET", "DELETE"} /\ ~Registered(lastHttp'.header))
        => /\ lastHttp'.status = 400
           /\ lastHttp'.forwardedTo = 0
           /\ transports' = transports ]_vars

\* C10: when a registered session's transport closes, its session id leaves the
\* table in that step and no other entry does.
C10_CloseRemovesOwnEntry ==
  [][ \A t \in TransportIds :
        (<<tr[t].sessionId, t>> \in transports /\ ~tr[t].closed /\ tr'[t].closed)
          => transports' = transports \ {<<tr[t].sessionId, t>>} ]_vars

\* a transport has signalled closure by itself while another session stays
C10_Witness ==
  /\ \E t \in TransportIds : tr[t].closed /\ ~tr[t].deleted
  /\ transports /= {}

\* the arguments the last call's handler received
LastArgs == SafeArgs(lastCall.raw)
\* a string made of the letter A and at least six digits
IsSequenceId(v) ==
  /\ v.type = "string"
  /\ Len(v.s) >= 7
  /\ v.s[1] = "A"
  /\ \A i \in 2..Len(v.s) : v.s[i] \in {"0", "1", "2", "3", "4", "5", "6", "7", "8", "9"}
NonEmptyString(v) == v.type = "string" /\ v.s /= <<>>
RejectedUnsent(message) ==
  /\ lastCall.outcome =
       [NoOutcome EXCEPT !.kind = "throw",
                         !.err = [class |-> "McpError", code |-> -32602,
                                  message |-> <<"MCP error ", "-32602", ": ", message>>]]
  /\ lastCall.requests = 0
  /\ lastCall.request.method = "none"

\* C11: a search call whose limit is outside 1..100 or whose skip is negative,
\* and an export_program call whose format is not formula, pari, lean, loda or
\* range, fails with InvalidParams and sends no request to the remote API.
C11_SchemaConstraintsEnforced ==
  ( /\ lastCall.settled
    /\ \/ /\ lastCall.name \in {"search_sequences", "search_programs"}
          /\ \/ LastArgs.limit.type = "number" /\ LastArgs.limit.n \notin 1..100
             \/ LastArgs.skip.type = "number" /\ LastArgs.skip.n < 0
       \/ /\ lastCall.name = "export_program"
          /\ LastArgs.format.type /= "undefined"
          /\ LastArgs.format \notin
               {Str(<<f>>) : f \in {"formula", "pari", "lean", "loda", "range"}} )
    => /\ IsMcpError(lastCall.outcome, -32602)
       /\ lastCall.requests = 0

\* C12: a get_sequence, get_program_details or submit_program call whose id is
\* not the letter A followed by at least six digits (or is absent) fails with
\* InvalidParams and sends no request.
C12_BadIdRejected ==
  ( /\ lastCall.settled
    /\ lastCall.name \in {"get_sequence", "get_program_details", "submit_program"}
    /\ ~IsSequenceId(LastArgs.id) )
    => /\ IsMcpError(lastCall.outcome, -32602)
       /\ lastCall.requests = 0

\* C13 (as stated): a search call whose q is absent, empty or not a string fails
\* with InvalidParams "q is required", and an eval_program, export_program or
\* submit_program call whose code is absent, empty or not a string fails with
\* InvalidParams "code is required"; neither sends a request.
C13_MissingFieldNamed ==
  /\ ( /\ lastCall.settled
       /\ lastCall.name \in {"search_sequences", "search_programs"}
       /\ ~NonEmptyString(LastArgs.q) )
       => RejectedUnsent("q is required")
  /\ ( /\ lastCall.settled
       /\ lastCall.name \in {"eval_program", "export_program", "submit_program"}
       /\ ~NonEmptyString(LastArgs.code) )
       => RejectedUnsent("code is required")

\* C13 (amended): as above, except that a submit_program call whose id does not
\* pass the id check either is rejected with the id's message and not the
\* code's; it still fails with InvalidParams and sends no request.
C13_MissingFieldNamedAfterId ==
  /\ ( /\ lastCall.settled
       /\ lastCall.name \in {"search_sequences", "search_programs"}
       /\ ~NonEmptyString(LastArgs.q) )
       => RejectedUnsent("q is required")
  /\ ( /\ lastCall.settled
       /\ lastCall.name \in {"eval_program", "export_program", "submit_program"}
       /\ ~NonEmptyString(LastArgs.code) )
       => IF lastCall.name = "submit_program"
             /\ ~( LastArgs.id.type \in {"string", "array"}
                   /\ IsSequenceId(Str(LastArgs.id.s)) )
          THEN RejectedUnsent("id must be a string like A000045")
          ELSE RejectedUnsent("code is required")

\* a submit_program call with a good id and an empty code has been rejected
C13_Witness ==
  /\ lastCall.settled
  /\ lastCall.name = "submit_program"
  /\ IsSequenceId(LastArgs.id)
  /\ LastArgs.code = Str(<<>>)

C15_NonSuccessStatusReported ==
  ( /\ lastCall.settled
    /\ lastCall.requests > 0
    /\ lastCall.up.fetch = "responds"
    /\ ~lastCall.up.ok )
    => /\ IsMcpError(lastCall.outcome, -32603)
       /\ lastCall.outcome.err.message =
            <<"MCP error ", "-32603", ": ", "LODA API request failed: ",
              "HTTP ", ToString(lastCall.up.status), ": ">>
            \o lastCall.up.statusText
            \o (IF lastCall.up.text /= <<>> /\ ~lastCall.up.textFails
                THEN <<" - ">> \o lastCall.up.text ELSE <<>>)

\* a call has settled on a 500 answer with a body
C15_Witness ==
  /\ lastCall.settled
  /\ lastCall.requests > 0
  /\ lastCall.up.fetch = "responds"
  /\ lastCall.up.status = 500
  /\ lastCall.up.text /= <<>>

\* C16: whenever fetch itself throws, whatever the thrown error's message, the
\* call fails with InternalError naming the base URL as unreachable.
C16_FetchFailureNamesBaseUrl ==
  ( /\ lastCall.settled
    /\ lastCall.requests > 0
    /\ lastCall.up.fetch = "throws" )
    => lastCall.outcome =
         [NoOutcome EXCEPT
            !.kind = "throw",
            !.err = [class |-> "McpError", code |-> -32603,
                     message |-> <<"MCP error ", "-32603", ": ",
                                   "Network error: Unable to connect to LODA API at ",
                                   "https://api.loda-lang.org/v2">>]]

\* C17: every request sent to the remote API carries Accept: application/json,
\* and the POST requests of eval_program, export_program and submit_program
\* carry Content-Type: text/plain as well.
C17_AcceptOnEveryRequest ==
  lastCall.requests > 0
    => /\ <<"Accept", "application/json">> \in lastCall.request.headers
       /\ lastCall.name \in {"eval_program", "export_program", "submit_program"}
            => /\ lastCall.request.method = "POST"
               /\ <<"Content-Type", "text/plain">> \in lastCall.request.headers

\* C18: the names the discovery listing returns are the names the dispatcher
\* routes to a handler: a listed name reaches its handler and never ends as
\* "Unknown tool", and an unlisted name reaches no handler and sends no request.
C18_ListedIffDispatched ==
  lastCall.settled
    => IF lastCall.name \in ListedNames
       THEN /\ lastCall.handled.kind \in {"result", "throw"}
            /\ lastCall.outcome = lastCall.handled
            /\ ~Includes(lastCall.outcome.err.message, "Unknown tool: ")
       ELSE /\ lastCall.handled.kind = "none"
            /\ lastCall.requests = 0
            /\ Includes(lastCall.outcome.err.message, "Unknown tool: ")

\* the tool listed last has been called and has returned a result
C18_Witness ==
  /\ lastCall.settled
  /\ lastCall.name = "get_usage_stats"
  /\ lastCall.handled.kind = "result"

\* C19: every discovery call returns the same descriptor names in the same order,
\* whatever tool calls and session operations came before it, and it changes no
\* session, creates no transport and sends no request to the remote API.
C19_ListingStable ==
  [][ lastList' /= <<>>
        => /\ lastList' =
                <<"get_program_details", "search_programs", "eval_program",
                  "export_program", "submit_program", "get_sequence",
                  "search_sequences", "get_stats", "get_keywords", "get_submitters",
                  "get_usage_stats">>
           /\ lastList /= <<>> => lastList' = lastList
           /\ transports' = transports
           /\ serverTransport' = serverTransport
           /\ inflight' = inflight
           /\ lastCall'.requests = 0
           /\ mode' = mode
           /\ running' = running
           /\ Len(tr') = Len(tr)
           /\ \A t \in 1..Len(tr) :
                /\ tr'[t].sessionId = tr[t].sessionId
                /\ tr'[t].initialized = tr[t].initialized
                /\ tr'[t].closed = tr[t].closed ]_vars

\* a listing has been returned on one session while another session has been
\* closed and a tool call is in flight
C19_Witness ==
  /\ lastList /= <<>>
  /\ inflight /= {}
  /\ \E t \in TransportIds : tr[t].closed

\* a command line has one of the given option words followed by a non-empty
\* argument, or an argument that begins with --port=
HasPortOption(a, words) ==
  \E i \in 1..Len(a) :
    \/ a[i] \in words /\ i < Len(a) /\ a[i + 1] /= <<>>
    \/ /\ Len(a[i]) >= 7
       /\ SubSeq(a[i], 1, 7) = <<"-", "-", "p", "o", "r", "t", "=">>
ModeEntered(words) ==
  /\ mode' /= "start"
       => /\ mode' = "http" <=> HasPortOption(argv', words)
          /\ mode' = "stdio" <=> ~HasPortOption(argv', words)
  /\ mode /= "start" => mode' = mode
  /\ mode' = "http" => \A t \in 1..Len(tr') : tr'[t].kind = "http"
  /\ mode' = "stdio" => /\ transports' = {}
                        /\ tr' = <<StdioTransport>>

\* C20 (as stated): one mode is entered at process start and never changed: HTTP
\* mode if and only if the command line has --port N, --port=N or -p N, stdio
\* mode if and only if it has none; never a stdio transport beside HTTP sessions.
\* (Stated of the processes that are up: one whose listener failed has exited.)
C20_ModeByPortOption ==
  [][running' => ModeEntered({<<"-", "-", "p", "o", "r", "t">>, <<"-", "p">>})]_vars

\* C20 (amended): the same, with --p N counted among the port options, and also
\* of a process whose listener failed: it took the HTTP branch and never stdio.
C20_ModeByPortOptionWithP ==
  [][ModeEntered({<<"-", "-", "p", "o", "r", "t">>, <<"-", "p">>, <<"-", "-", "p">>})]_vars

\* the process was started with --port=80 and serves an HTTP session
C20_Witness ==
  /\ mode = "http"
  /\ argv = << <<"-", "v">>, <<"-", "-", "p", "o", "r", "t", "=", "8", "0">> >>
  /\ running
  /\ transports /= {}


\* C21: in HTTP mode, a port that is already bound makes the process log a
\* diagnostic no other listener or startup failure logs and exit with a non-zero
\* status; it is never left running and never turns to stdio mode.
C21_PortInUseReportedAndFatal ==
  LET inUse == "Error: Port is already in use or the server is already running."
  IN /\ exit.cause = "EADDRINUSE" =>
          /\ exit.log = inUse
          /\ exit.code /= 0
          /\ ~running
          /\ mode = "http"
     /\ exit.cause \notin {"none", "EADDRINUSE"} => exit.log /= inUse
\* the port was in use, and so was refused with another code on another run
C21_Witness ==
  /\ mode = "http"
  /\ exit.cause = "EADDRINUSE"
  /\ ~running


\* C22: a search_sequences or search_programs call answered with an empty
\* results list returns one text block that is exactly "No sequences found." or
\* "No programs found.", and passes the answer's total through.
C22_EmptySearchIsSentinel ==
  \A name \in {"search_sequences", "search_programs"} :
    ( /\ lastCall.settled
      /\ lastCall.name = name
      /\ lastCall.requests > 0
      /\ lastCall.outcome.kind = "result"
      /\ Has(lastCall.up.json, "results")
      /\ Len(lastCall.up.json.results) = 0 )
      => /\ lastCall.outcome.content =
              <<TextBlock(<<IF name = "search_sequences" THEN "No sequences found."
                            ELSE "No programs found.">>)>>
         /\ Has(lastCall.outcome.props, "total")
         /\ lastCall.outcome.props.total = lastCall.up.json.total


\* C23: a transport connected to the dispatcher stays bound to it while it is
\* open: when a call that arrived on a live session's own connection completes
\* after another transport was created and connected, its response is sent
\* through the transport of the session it arrived on.
C23_TransportStaysBound ==
  [][ \A c \in inflight :
        ( /\ c \notin inflight'
          /\ c.connected = c.origin
          /\ serverTransport /= c.origin
          /\ ~tr[c.origin].closed )
          => lastDelivery' = [origin |-> c.origin, via |-> c.origin, rid |-> c.rid,
                              delivered |-> TRUE] ]_vars


\* C24: whenever a tool handler fails with an exception that is not a normalized
\* error, the call fails with InternalError whose message holds the tool name
\* and the message of that exception.
C24_HandlerExceptionWrapped ==
  ( /\ lastCall.settled
    /\ lastCall.handled.kind = "throw"
    /\ lastCall.handled.err.class /= "McpError" )
    => lastCall.outcome =
         Throw([class |-> "McpError", code |-> -32603,
                message |-> <<"MCP error ", "-32603", ": ", "Error executing tool ",
                              lastCall.name, ": ">> \o lastCall.handled.err.message])


\* C25: every failure that leaves the API adapter (non-success status, failed
\* connection, any other thrown value) is an InternalError, and it reaches the
\* caller of the dispatcher as it left the adapter: same kind, same message,
\* not wrapped again.
C25_AdapterFailureIsInternalErrorUnchanged ==
  LET up == lastCall.up
      failed == \/ up.fetch = "throws"
                \/ ~up.ok
                \/ IF Includes(up.contentType, "application/json")
                   THEN ~up.jsonOk ELSE up.textFails
      text == IF up.fetch = "throws"
              THEN IF up.thrown.class = "nonError"
                   THEN <<"Unknown error occurred">>
                   ELSE IF Includes(up.thrown.message, "fetch")
                   THEN <<"Network error: Unable to connect to LODA API at ",
                          "https://api.loda-lang.org/v2">>
                   ELSE <<"Request error: ">> \o up.thrown.message
              ELSE IF ~up.ok
              THEN <<"LODA API request failed: ", "HTTP ", ToString(up.status), ": ">>
                   \o up.statusText
                   \o (IF up.text /= <<>> /\ ~up.textFails
                       THEN <<" - ">> \o up.text ELSE <<>>)
              ELSE IF Includes(up.contentType, "application/json")
              THEN <<"Request error: ", "Unexpected token">>
              ELSE <<"Request error: ", "terminated">>
  IN (lastCall.settled /\ lastCall.requests > 0 /\ failed)
       => /\ IsMcpError(lastCall.outcome, -32603)
          /\ lastCall.outcome.err.message = <<"MCP error ", "-32603", ": ">> \o text
\* a call has settled after its fetch threw
C25_Witness ==
  /\ lastCall.settled
  /\ lastCall.requests > 0
  /\ lastCall.up.fetch = "throws"
  /\ IsMcpError(lastCall.outcome, -32603)


\* C26: whatever the raw arguments value of a tool call, the value handed to the
\* handler is a mapping: the value itself if it is a mapping, and the empty
\* mapping if it is absent, null, a number, a string, a boolean or an array.
C26_HandedValueIsMapping ==
  lastCall.name \in {"get_program_details", "search_programs", "eval_program",
                     "export_program", "submit_program", "get_sequence",
                     "search_sequences"}
    => /\ lastCall.handed.value.type = "object"
       /\ lastCall.handed = IF lastCall.raw.value.type = "object" THEN lastCall.raw
                            ELSE Raw(Obj, NoArgs)


\* a call of the first session is waiting for the remote API
HungOnFirst == \E c \in inflight : c.origin = 1
\* t is a later session's open transport, registered under the id h
LiveOther(t, h) ==
  /\ t \in 2..Len(tr)
  /\ tr[t].initialized
  /\ ~tr[t].closed
  /\ tr[t].sessionId = h
  /\ Lookup(transports, h) = t
InFlightOn(t, rid) == \E c \in inflight : c.origin = t /\ c.rid = rid

\* C27: while a call of the first session waits for an answer of the remote API
\* that never comes, every request on another live session and every request
\* for a new session is taken (status 200), and every call in flight on another
\* session completes in the end unless the process exits; nothing queues behind
\* the hung call.
C27_HungCallStallsOnlyItself ==
  /\ [][ ( /\ HungOnFirst
           /\ lastHttp' /= NoHttp
           /\ \/ /\ lastHttp'.body /= "initialize"
                 /\ LiveOther(lastHttp'.forwardedTo, lastHttp'.header)
              \/ lastHttp'.body = "initialize" /\ lastHttp'.header = NoSessionId )
           => lastHttp'.status = 200 ]_vars
  /\ \A t \in 2..MaxTransports, rid \in RequestIds :
       InFlightOn(t, rid) ~> (~InFlightOn(t, rid) \/ ~running)
\* a call of the second session has completed while one of the first is still
\* waiting for its answer
C27_Witness ==
  /\ \E c \in inflight : c.origin = 1
  /\ lastCall.settled
  /\ lastCall.requests > 0
  /\ lastDelivery.origin = 2


C29_TableOwnedByFrontEnd ==
  [][ /\ transports' /= transports
        => \/ /\ Len(tr') = Len(tr) + 1
              /\ tr'[Len(tr')].initialized
              /\ transports' = transports \cup {<<tr'[Len(tr')].sessionId, Len(tr')>>}
           \/ \E t \in TransportIds :
                /\ ~tr[t].closed
                /\ tr'[t].closed
                /\ transports' = transports \ {<<tr[t].sessionId, t>>}
      /\ (lastCall' /= NoCall \/ lastList' /= NoListing) => transports' = transports ]_vars
\* a tool call has failed while a session was registered
C29_Witness ==
  /\ transports /= {}
  /\ lastCall.settled
  /\ lastCall.outcome.kind = "throw"
  /\ lastCall.requests > 0


\* C30: a search, eval, export or submit call that succeeds returns the one text
\* block its handler rendered, whatever properties the answer of the remote API
\* has: a property of the answer named content never takes the place of the
\* handler's content blocks.
C30_UpstreamContentNeverReplaces ==
  ( /\ lastCall.settled
    /\ lastCall.name \in {"search_sequences", "search_programs", "eval_program",
                          "export_program", "submit_program"}
    /\ lastCall.outcome.kind = "result"
    /\ Has(lastCall.up.json, "content") )
    => /\ Len(lastCall.outcome.content) = 1
       /\ lastCall.outcome.content /= lastCall.up.json.content

=============================================================================
